---- MODULE Spec2Model ----
(***************************************************************************)
(* DLRScanner: the resumable, checkpointed batch engine.                   *)
(*                                                                         *)
(*   src/src/progress_tracker.py   ProgressTracker (phase-1 checkpoint)    *)
(*   src/src/batch_uploader.py     BatchUploader   (phase-2 checkpoint)    *)
(*   src/bulk_process_emails.py    BulkEmailProcessor.parse_phase          *)
(*                                                                         *)
(* One state of the model is the disk (the checkpoint file at the          *)
(* checkpoint path, the temp file of a save in progress, the output file)  *)
(* together with the memory of the one process that is running.  `world`   *)
(* says what drives the code: "api" (a client calling ProgressTracker's    *)
(* methods in any order), "parse" (the parse subcommand, run, killed and   *)
(* run again) or "upload" (upload_in_batches, run, killed and run again).  *)
(*                                                                         *)
(* Left out: timestamps (last_updated, the timestamp of a failed entry),   *)
(* log lines, and the content of an article; the entity counters of the    *)
(* statistics are the collaborators' and are not modelled.                 *)
(* shutil.move of the temp file onto the checkpoint path is os.rename, and  *)
(* when os.rename raises OSError a copy onto the path followed by the      *)
(* removal of the temp file.  os.rename replaces an existing file on POSIX *)
(* and raises FileExistsError on Windows (the usage text of                *)
(* bulk_process_emails.py gives Windows paths), so both are modelled.      *)
(***************************************************************************)
EXTENDS Integers, Sequences, FiniteSets, TLC

(* ------------------------------ bounds -------------------------------- *)

\* Longest all_files list handed to get_remaining_files by an API client.
MaxLen == 2
\* Most state-changing calls an API client makes on one tracker.
MaxCalls == 3
\* Units (email files) in the scanned folder.
NumUnits == 2
\* Longest articles list handed to upload_in_batches.
NumArticles == 5
\* BatchUploader's batch_size argument.
batch_size == 2
\* Runs of a subcommand (the first run and the runs after it) that are followed.
MaxRuns == 2

(* ------------------------------ paths --------------------------------- *)

\* A path is the sequence of its components; these are relative paths.
Paths == { <<"a">>, <<"b">>, <<"c", "..", ".", "a">> }

RECURSIVE NormComps(_, _)
NormComps(rest, acc) ==
    IF rest = <<>> THEN acc
    ELSE LET c == Head(rest) IN
         IF c = "." THEN NormComps(Tail(rest), acc)
         ELSE IF c = ".." /\ acc # <<>> /\ acc[Len(acc)] # ".."
              THEN NormComps(Tail(rest), SubSeq(acc, 1, Len(acc) - 1))
              ELSE NormComps(Tail(rest), Append(acc, c))

\* os.path.normpath: "." components dropped, "x/.." collapsed, "" is ".".
normpath(p) ==
    LET r == NormComps(p, <<>>) IN IF r = <<>> THEN <<".">> ELSE r

Range(s) == { s[j] : j \in 1..Len(s) }

RECURSIVE SelectSeq2(_, _)
\* [f for f in s if f not in drop-after-normpath]: a list comprehension.
SelectSeq2(s, dropNorm) ==
    IF s = <<>> THEN <<>>
    ELSE IF normpath(Head(s)) \in dropNorm
         THEN SelectSeq2(Tail(s), dropNorm)
         ELSE <<Head(s)>> \o SelectSeq2(Tail(s), dropNorm)

(* ------------------------- ProgressTracker ---------------------------- *)

StatKeys == {"emails_read", "articles_extracted", "entities_extracted", "entities_matched"}

initialize_checkpoint ==
    [ total_files          |-> 0,
      processed_files      |-> 0,
      processed_file_paths |-> <<>>,
      failed_files         |-> <<>>,
      statistics           |-> [k \in StatKeys |-> 0] ]

is_processed(cd, file_path) ==
    normpath(file_path) \in { normpath(p) : p \in Range(cd.processed_file_paths) }

\* A mark_processed that records nothing.
mark_processed_nop(cd, file_path) == cd

\* A mark_processed that compares the stored strings, without normpath.
mark_processed_exact(cd, file_path) ==
    IF file_path \notin Range(cd.processed_file_paths)
    THEN LET paths == Append(cd.processed_file_paths, file_path) IN
         [cd EXCEPT !.processed_file_paths = paths, !.processed_files = Len(paths)]
    ELSE cd

\* A mark_processed without the is_processed test.
mark_processed_dup(cd, file_path) ==
    LET paths == Append(cd.processed_file_paths, file_path) IN
    [cd EXCEPT !.processed_file_paths = paths, !.processed_files = Len(paths)]

mark_processed(cd, file_path) ==
    IF ~is_processed(cd, file_path)
    THEN LET paths == Append(cd.processed_file_paths, file_path) IN
         [cd EXCEPT !.processed_file_paths = paths, !.processed_files = Len(paths)]
    ELSE cd

\* A mark_failed that also puts the unit with the processed ones.
mark_failed_done(cd, file_path, error) ==
    LET paths == Append(cd.processed_file_paths, file_path) IN
    [cd EXCEPT !.failed_files = Append(@, [path |-> file_path, error |-> error]),
               !.processed_file_paths = paths,
               !.processed_files = Len(paths)]

\* A mark_failed that records nothing.
mark_failed_silent(cd, file_path, error) == cd

mark_failed(cd, file_path, error) ==
    [cd EXCEPT !.failed_files = Append(@, [path |-> file_path, error |-> error])]

\* A filter on the stored strings, without normpath.
get_remaining_files_raw(cd, files) ==
    SelectSeq2(files, Range(cd.processed_file_paths))

get_remaining_files(cd, files) ==
    SelectSeq2(files, { normpath(p) : p \in Range(cd.processed_file_paths) })

\* dict.update: the keys of stats are overwritten, the others kept.
update_statistics(cd, stats) ==
    [cd EXCEPT !.statistics =
        [k \in (DOMAIN @) \cup (DOMAIN stats) |->
            IF k \in DOMAIN stats THEN stats[k] ELSE @[k]]]

\* Python's None.
None == [kind |-> "none"]

\* What a file holds.
NoFile   == [kind |-> "none"]
Corrupt  == [kind |-> "corrupt"]
Partial  == [kind |-> "partial"]
Empty    == [kind |-> "empty"]
\* json.dump of a document, and json.load of what it wrote.
Dumped(data) == [kind |-> "json", data |-> data]

\* load_checkpoint: the data of a file that parses replaces checkpoint_data;
\* with no file, or one json.load rejects (the except branch logs and
\* returns a new dict the caller drops), checkpoint_data stays as it is.
load_checkpoint(file, cd) == IF file.kind = "json" THEN file.data ELSE cd

\* The except branch of a load: the file exists and json.load raises.
load_raises(file) == file.kind \notin {"none", "json"}

reset == initialize_checkpoint

(* ------------------------------- state -------------------------------- *)

VARIABLES
    world,            \* "api" | "parse" | "upload"
    pc,               \* where the running process is; "idle": no process
    ret,              \* where a save in progress returns to
    checkpoint_file,  \* the file at checkpoint_path
    tmp,              \* the temp file of the save in progress
    tmp_left,         \* a temp file was left behind in the checkpoint directory
    output_exists,    \* os.path.exists(output_path)
    output_file,      \* the tokens written to the output file
    flushed,          \* how many of them are on disk for sure (the rest is buffered)
    checkpoint_data,  \* ProgressTracker.checkpoint_data
    all_files,        \* the workload: scan_folder's result, or a client's list
    remaining_files,  \* get_remaining_files' result
    resume,           \* the resume argument of the running subcommand
    idx,              \* the position of the for loop in remaining_files
    files_processed,  \* parse_phase's counter
    total_articles,   \* parse_phase's counter
    output_mode,      \* "a" | "w"
    attempted,        \* units this run has handed to the collaborators (history)
    runs,             \* runs started so far (history)
    prev_end,         \* how the run before ended (history): "none" | "returned" |
                      \* "returned_failed" (returned, a unit was marked failed) |
                      \* "returned_limited" (returned, the limit cut the folder short) |
                      \* "killed" | "killed_before_move" (temp file written, not renamed)
    load_failed,      \* this run logged "Failed to load checkpoint" (history)
    save_failed,      \* this run logged "Failed to save checkpoint" (history)
    durable_batch,    \* last_successful_batch of the checkpoint the last
                      \* completed save put at the checkpoint path, -1 since
                      \* a run started with resume=false (history)
    articles,         \* upload_in_batches' articles argument
    acked,            \* batches the uploader reported a success for, since a
                      \* run started with resume=false (history)
    exhausted,        \* batches that used up their attempts in such a run and
                      \* are not in acked (history)
    upload_stats,     \* stats, the dict the last _upload_batch call returned
    invoked,          \* _upload_batch calls made for the current batch (history)
    all_full,         \* every _upload_batch call of this run delivered its whole batch (history)
    checkpoint,       \* upload_in_batches' checkpoint dict
    start_batch,      \* upload_in_batches' local
    batch_num,        \* the position of its for loop
    attempt,          \* the position of _retry_with_backoff's for loop
    calls,            \* batches handed to the uploader in this run, one entry
                      \* per batch however many attempts it took (history)
    sleeps,           \* rate limit sleeps of this run (history)
    backoffs,         \* delays slept before the retries of this batch (history)
    marked,           \* ids mark_processed was called with (history)
    marked_kept,      \* ... since the checkpoint data was last replaced (history)
    calls_made        \* state-changing calls the API client has made (history)

diskVars    == << checkpoint_file, tmp, tmp_left, durable_batch >>
outVars     == << output_exists, output_file, flushed >>
queryVars   == << all_files, remaining_files >>
parseVars   == << resume, idx, files_processed, total_articles, output_mode, attempted >>
runVars     == << runs, prev_end, load_failed >>
clientVars  == << marked, marked_kept, calls_made >>
uploadVars  == << checkpoint, start_batch, batch_num, attempt, calls, sleeps,
                  backoffs, upload_stats, invoked, all_full >>
remoteVars  == << acked, exhausted >>

vars == << world, pc, ret, diskVars, outVars, checkpoint_data, queryVars,
           parseVars, runVars, save_failed, clientVars, articles, remoteVars,
           uploadVars >>

(* ------------------- ProgressTracker.save_checkpoint ------------------ *)

\* Lines 98-99: a data argument replaces checkpoint_data; then the save runs.
\* NoData stands for the default data=None; cd is checkpoint_data at the call.
NoData == None

\* A save after which the caller is back at line 139.
save_checkpoint_enter_139(cd, data, back) ==
    /\ checkpoint_data' = IF data # NoData THEN data ELSE cd
    /\ pc' = "t_create"
    /\ ret' = "p_saved"

save_checkpoint_enter(cd, data, back) ==
    /\ checkpoint_data' = IF data # NoData THEN data ELSE cd
    /\ pc' = "t_create"
    /\ ret' = back

\* Lines 106-115: makedirs and NamedTemporaryFile(delete=False). When either
\* raises no temp file exists and tmp_path is unbound: the handler logs.
TrackerCreateTemp ==
    /\ UNCHANGED << articles, remoteVars, uploadVars >>
    /\ pc = "t_create"
    /\ \/ /\ tmp' = Empty
          /\ pc' = "t_dump"
          /\ UNCHANGED << save_failed, tmp_left >>
       \/ /\ pc' = ret
          /\ save_failed' = TRUE
          /\ UNCHANGED << tmp, tmp_left >>
    /\ UNCHANGED << world, ret, checkpoint_file, durable_batch, outVars, checkpoint_data,
                    queryVars, parseVars, runVars, clientVars >>

\* What line 116 leaves in the temp file when all of it was written.
tracker_dump(data) == Dumped(data)

\* Lines 116-117 and the end of the with block.
\*  - json.dump and close succeed: the temp file holds the whole document.
\*  - json.dump raises (a write error, a value json cannot encode): line 117
\*    was not reached, so 'tmp_path' is not in locals() and the handler at
\*    127 removes nothing: the partly written temp file stays.
\*  - close raises (the buffered data cannot be flushed): tmp_path is bound
\*    and the handler removes the temp file.
TrackerDump ==
    /\ UNCHANGED << articles, remoteVars, uploadVars >>
    /\ pc = "t_dump"
    /\ \/ /\ tmp' = tracker_dump(checkpoint_data)
          /\ pc' = "t_move"
          /\ UNCHANGED << save_failed, tmp_left >>
       \/ /\ tmp' = NoFile
          /\ tmp_left' = TRUE
          /\ pc' = ret
          /\ save_failed' = TRUE
       \/ /\ tmp' = NoFile
          /\ pc' = ret
          /\ save_failed' = TRUE
          /\ UNCHANGED tmp_left
    /\ UNCHANGED << world, ret, checkpoint_file, durable_batch, outVars, checkpoint_data,
                    queryVars, parseVars, runVars, clientVars >>

\* Line 120: shutil.move(tmp_path, checkpoint_path).
\*  - os.rename succeeds: the path holds the temp file's content.
\*  - os.rename raises because the path exists (Windows): shutil.move goes on
\*    to copy the temp file onto the path, which truncates the checkpoint
\*    file and writes it anew.
\*  - shutil.move raises: the handler removes the temp file (127-129).
TrackerMove ==
    /\ UNCHANGED << articles, remoteVars, uploadVars >>
    /\ pc = "t_move"
    /\ \/ /\ checkpoint_file' = tmp
          /\ tmp' = NoFile
          /\ pc' = ret
          /\ UNCHANGED save_failed
       \/ /\ checkpoint_file # NoFile
          /\ checkpoint_file' = Partial
          /\ pc' = "t_copy"
          /\ UNCHANGED << tmp, save_failed >>
       \/ /\ save_failed' = TRUE
          /\ tmp' = NoFile
          /\ pc' = ret
          /\ UNCHANGED checkpoint_file
    /\ UNCHANGED << world, ret, tmp_left, durable_batch, outVars, checkpoint_data,
                    queryVars, parseVars, runVars, clientVars >>

\* Line 120, shutil.move's copy: it completes and the temp file is
\* unlinked, or it raises with the checkpoint file partly written and the
\* handler removes the temp file.
TrackerCopy ==
    /\ UNCHANGED << articles, remoteVars, uploadVars >>
    /\ pc = "t_copy"
    /\ \/ /\ checkpoint_file' = tmp
          /\ UNCHANGED save_failed
       \/ /\ save_failed' = TRUE
          /\ UNCHANGED checkpoint_file
    /\ tmp' = NoFile
    /\ pc' = ret
    /\ UNCHANGED << world, ret, tmp_left, durable_batch, outVars, checkpoint_data,
                    queryVars, parseVars, runVars, clientVars >>

(* ------------------- a client of ProgressTracker ---------------------- *)

Errors == {"boom"}

\* The statistics a client merges.
StatsInputs == { [emails_read |-> 1, articles_extracted |-> 2] }

\* The data a client hands to save_checkpoint(data).
DataInputs == { NoData, initialize_checkpoint }

BoundedSeqs(S, n) == UNION { [1..m -> S] : m \in 0..n }

ApiMarkProcessed(p) ==
    /\ UNCHANGED << articles, remoteVars, uploadVars >>
    /\ pc = "api"
    /\ calls_made < MaxCalls
    /\ calls_made' = calls_made + 1
    /\ checkpoint_data' = mark_processed(checkpoint_data, p)
    /\ marked' = marked \cup {p}
    /\ marked_kept' = marked_kept \cup {p}
    /\ all_files' = <<>>
    /\ remaining_files' = <<>>
    /\ UNCHANGED << world, pc, ret, diskVars, outVars, parseVars, runVars,
                    save_failed >>

ApiMarkFailed(p, e) ==
    /\ UNCHANGED << articles, remoteVars, uploadVars >>
    /\ pc = "api"
    /\ calls_made < MaxCalls
    /\ calls_made' = calls_made + 1
    /\ checkpoint_data' = mark_failed(checkpoint_data, p, e)
    /\ all_files' = <<>>
    /\ remaining_files' = <<>>
    /\ UNCHANGED << world, pc, ret, diskVars, outVars, parseVars, runVars,
                    save_failed, marked, marked_kept >>

ApiUpdateStatistics(stats) ==
    /\ UNCHANGED << articles, remoteVars, uploadVars >>
    /\ pc = "api"
    /\ calls_made < MaxCalls
    /\ calls_made' = calls_made + 1
    /\ checkpoint_data' = update_statistics(checkpoint_data, stats)
    /\ all_files' = <<>>
    /\ remaining_files' = <<>>
    /\ UNCHANGED << world, pc, ret, diskVars, outVars, parseVars, runVars,
                    save_failed, marked, marked_kept >>

ApiGetRemainingFiles(files) ==
    /\ UNCHANGED << articles, remoteVars, uploadVars >>
    /\ pc = "api"
    /\ all_files' = files
    /\ remaining_files' = get_remaining_files(checkpoint_data, files)
    /\ UNCHANGED << world, pc, ret, diskVars, outVars, checkpoint_data,
                    parseVars, runVars, save_failed, clientVars >>

ApiSaveCheckpoint(data) ==
    /\ UNCHANGED << articles, remoteVars, uploadVars >>
    /\ pc = "api"
    /\ calls_made < MaxCalls
    /\ calls_made' = calls_made + 1
    /\ save_checkpoint_enter(checkpoint_data, data, "api")
    /\ marked_kept' = IF data # NoData THEN {} ELSE marked_kept
    /\ all_files' = <<>>
    /\ remaining_files' = <<>>
    /\ UNCHANGED << world, diskVars, outVars, parseVars, runVars, save_failed,
                    marked >>

\* The disk before the first run: no checkpoint, or a file at the checkpoint
\* path that is not a checkpoint (json.load rejects it); no output file.
InitDisk ==
    /\ checkpoint_file \in {NoFile, Corrupt}
    /\ tmp = NoFile
    /\ tmp_left = FALSE
    /\ durable_batch = -1
    /\ acked = {}
    /\ exhausted = {}
    /\ output_exists = FALSE
    /\ output_file = <<>>
    /\ flushed = 0

\* The memory of a process that has not started: nothing of an earlier
\* process is in it.
NoProcess ==
    /\ checkpoint_data = initialize_checkpoint
    /\ all_files = <<>>
    /\ remaining_files = <<>>
    /\ resume = FALSE
    /\ idx = 0
    /\ files_processed = 0
    /\ total_articles = 0
    /\ output_mode = "w"
    /\ attempted = <<>>
    /\ load_failed = FALSE
    /\ save_failed = FALSE
    /\ checkpoint = None
    /\ start_batch = 0
    /\ batch_num = 0
    /\ attempt = 0
    /\ calls = <<>>
    /\ sleeps = 0
    /\ backoffs = <<>>
    /\ upload_stats = None
    /\ invoked = 0
    /\ all_full = TRUE

\* The process has ended: its memory is gone.
ProcessGone ==
    /\ checkpoint_data' = initialize_checkpoint
    /\ all_files' = <<>>
    /\ remaining_files' = <<>>
    /\ resume' = FALSE
    /\ idx' = 0
    /\ files_processed' = 0
    /\ total_articles' = 0
    /\ output_mode' = "w"
    /\ attempted' = <<>>
    /\ load_failed' = FALSE
    /\ save_failed' = FALSE
    /\ checkpoint' = None
    /\ start_batch' = 0
    /\ batch_num' = 0
    /\ attempt' = 0
    /\ calls' = <<>>
    /\ sleeps' = 0
    /\ backoffs' = <<>>
    /\ upload_stats' = None
    /\ invoked' = 0
    /\ all_full' = TRUE

InitProcess ==
    /\ NoProcess
    /\ runs = 0
    /\ prev_end = "none"
    /\ marked = {}
    /\ marked_kept = {}
    /\ calls_made = 0

\* ProgressTracker.__init__ (lines 27-29), in the hands of a client.
InitTracker ==
    /\ world = "api"
    /\ articles = <<>>
    /\ pc = "api"
    /\ ret = "api"
    /\ InitDisk
    /\ InitProcess

NextTracker ==
    \/ \E p \in Paths : ApiMarkProcessed(p)
    \/ \E p \in Paths, e \in Errors : ApiMarkFailed(p, e)
    \/ \E stats \in StatsInputs : ApiUpdateStatistics(stats)
    \/ \E files \in BoundedSeqs(Paths, MaxLen) : ApiGetRemainingFiles(files)
    \/ \E data \in DataInputs : ApiSaveCheckpoint(data)
    \/ TrackerCreateTemp
    \/ TrackerDump
    \/ TrackerMove
    \/ TrackerCopy

SpecTracker == InitTracker /\ [][NextTracker]_vars

(* --------------- BulkEmailProcessor.parse_phase ----------------------- *)

\* BulkEmailProcessor.CHECKPOINT_SAVE_INTERVAL is 10 in the source; the model
\* runs the same code with an interval of 2, so that a folder of NumUnits
\* units reaches the periodic save.
CHECKPOINT_SAVE_INTERVAL == 2

UnitNames == << "a", "b", "c", "d" >>

\* What the collaborators make of a unit when they do not raise: the parser
\* is deterministic, so the number of articles is a function of the file.
\* Unit b is a newsletter with no article in it.
articles_of(file_path) ==
    CASE file_path[2] = "a" -> 1
      [] file_path[2] = "b" -> 0
      [] file_path[2] = "c" -> 2
      [] OTHER -> 1

\* EmailFileReader.scan_folder: absolute (so normalized) paths, sorted.
scan_folder == [j \in 1..NumUnits |-> << "emails", UnitNames[j] >>]

\* The limit argument of parse_phase: 0 stands for None (and for 0, which
\* "if limit:" treats alike).
Limits == {0, 1}

\* Lines 129-130: all_files[:limit] when a limit is given.
limited(files, limit) ==
    IF limit # 0 /\ limit < Len(files) THEN SubSeq(files, 1, limit) ELSE files

\* The tokens of the output file.
OpenBracket  == [t |-> "["]
CloseBracket == [t |-> "]"]
Comma        == [t |-> ","]
Article(unit, n) == [t |-> "article", unit |-> unit, n |-> n]

RECURSIVE write_articles(_, _, _, _)
\* Lines 193-199 for the articles n..k of one unit: a comma before an article
\* that is not the first of the run, or in append mode; then the article.
write_articles(unit, n, k, total) ==
    IF n > k THEN <<>>
    ELSE (IF total > 0 \/ output_mode = "a" THEN <<Comma>> ELSE <<>>)
         \o <<Article(unit, n)>>
         \o write_articles(unit, n + 1, k, total + 1)

\* The statistics parse_phase merges at lines 215-221 and 235-241.
run_statistics(fp, ta) == [emails_read |-> fp, articles_extracted |-> ta]

\* How a run of parse_phase that returns is remembered: a unit was marked
\* failed, or the limit cut the folder short, or neither.
run_end(all_processed) ==
    IF ~all_processed THEN "returned_failed"
    ELSE IF Len(all_files) < Len(scan_folder) THEN "returned_limited"
    ELSE "returned"

\* Lines 111-137: a new tracker; load or reset; scan; the remaining files;
\* total_files; then the first save_checkpoint().
ParseStart(r, limit) ==
    /\ UNCHANGED << articles, remoteVars, uploadVars >>
    /\ world = "parse"
    /\ pc = "idle"
    /\ runs < MaxRuns
    /\ runs' = runs + 1
    /\ resume' = r
    /\ LET cd == IF r THEN load_checkpoint(checkpoint_file, initialize_checkpoint)
                      ELSE reset
           files == limited(scan_folder, limit)
       IN  /\ load_failed' = (r /\ load_raises(checkpoint_file))
           /\ all_files' = files
           /\ remaining_files' = IF r THEN get_remaining_files(cd, files) ELSE files
           /\ save_checkpoint_enter([cd EXCEPT !.total_files = Len(files)],
                                    NoData, "p_saved")
    /\ save_failed' = FALSE
    /\ idx' = 0
    /\ files_processed' = 0
    /\ total_articles' = 0
    /\ output_mode' = "w"
    /\ attempted' = <<>>
    /\ UNCHANGED << world, diskVars, outVars, prev_end, clientVars >>

\* Lines 139-159: nothing remains: return the statistics. Otherwise open the
\* output file, to append when resuming and it exists, else truncated, with
\* the opening bracket written.
ParseOpenOutput ==
    /\ pc = "p_saved"
    /\ IF remaining_files = <<>>
       THEN /\ pc' = "idle"
            /\ prev_end' = run_end(TRUE)
            /\ ProcessGone
            /\ UNCHANGED outVars
       ELSE LET mode == IF resume /\ output_exists THEN "a" ELSE "w" IN
            /\ output_mode' = mode
            /\ output_exists' = TRUE
            /\ output_file' = IF mode = "w" THEN <<OpenBracket>> ELSE output_file
            /\ flushed' = IF mode = "w" THEN 0 ELSE Len(output_file)
            /\ idx' = 1
            /\ pc' = "p_loop"
            /\ UNCHANGED << prev_end, checkpoint_data, queryVars, resume,
                            files_processed, total_articles, attempted,
                            load_failed, save_failed, uploadVars >>
    /\ UNCHANGED << world, ret, diskVars, runs, clientVars, articles, remoteVars >>

\* Lines 161-229, one pass of the loop. The collaborators (read, parse,
\* extract, validate, prepare) raise, make no article, or make k articles.
ParseUnit ==
    /\ UNCHANGED << articles, remoteVars, uploadVars >>
    /\ pc = "p_loop"
    /\ idx <= Len(remaining_files)
    /\ LET file_path == remaining_files[idx] IN
       /\ attempted' = Append(attempted, file_path)
       /\ idx' = idx + 1
       /\ \/ \E e \in Errors : \E j \in 0..articles_of(file_path) :
               \* 225-229: a step of the try block raises, before the first
               \* article is written or after the j-th was
               /\ output_file' = output_file
                                    \o write_articles(file_path, 1, j, total_articles)
               /\ total_articles' = total_articles + j
               /\ checkpoint_data' = mark_failed(checkpoint_data, file_path, e)
               /\ pc' = "p_loop"
               /\ UNCHANGED << ret, files_processed >>
          \/   \* 169-172: continue, past the counter and the periodic save
               /\ articles_of(file_path) = 0
               /\ checkpoint_data' = mark_processed(checkpoint_data, file_path)
               /\ pc' = "p_loop"
               /\ UNCHANGED << ret, output_file, files_processed, total_articles >>
          \/   \* 192-223
               /\ articles_of(file_path) > 0
               /\ LET k == articles_of(file_path)
                   fp == files_processed + 1
                   ta == total_articles + k
                   cd == mark_processed(checkpoint_data, file_path)
                 IN /\ output_file' = output_file
                                     \o write_articles(file_path, 1, k, total_articles)
                    /\ total_articles' = ta
                    /\ files_processed' = fp
                    /\ IF fp % CHECKPOINT_SAVE_INTERVAL = 0
                       THEN save_checkpoint_enter(
                                update_statistics(cd, run_statistics(fp, ta)),
                                NoData, "p_loop")
                       ELSE /\ checkpoint_data' = cd
                            /\ pc' = "p_loop"
                            /\ UNCHANGED ret
    /\ UNCHANGED << world, diskVars, output_exists, flushed, queryVars, resume,
                    output_mode, runVars, save_failed, clientVars >>

\* Lines 231-242: the closing bracket, the end of the with block (the file is
\* closed, so all of it is on disk), the statistics and the final save.
ParseClose ==
    /\ UNCHANGED << articles, remoteVars, uploadVars >>
    /\ pc = "p_loop"
    /\ idx > Len(remaining_files)
    /\ output_file' = Append(output_file, CloseBracket)
    /\ flushed' = Len(output_file) + 1
    /\ save_checkpoint_enter(
           update_statistics(checkpoint_data,
                             run_statistics(files_processed, total_articles)),
           NoData, "p_done")
    /\ UNCHANGED << world, diskVars, output_exists, queryVars, parseVars,
                    runVars, save_failed, clientVars >>

\* Line 252: parse_phase returns its statistics.
ParseReturn ==
    /\ pc = "p_done"
    /\ pc' = "idle"
    /\ prev_end' = run_end(\A j \in 1..Len(attempted) :
                                is_processed(checkpoint_data, attempted[j]))
    /\ ProcessGone
    /\ UNCHANGED << world, ret, diskVars, outVars, runs, clientVars, articles, remoteVars >>

\* The process is killed (no handler runs). Its memory is gone; of the output
\* written since the file was opened, a prefix is on disk; the temp file of a
\* save in progress stays in the checkpoint directory.
Kill ==
    /\ pc \notin {"idle", "api"}
    /\ pc' = "idle"
    /\ prev_end' = IF pc \in {"t_move", "us_move"} THEN "killed_before_move"
                                                    ELSE "killed"
    /\ tmp' = NoFile
    /\ tmp_left' = (tmp_left \/ tmp # NoFile)
    /\ \E m \in flushed..Len(output_file) :
         /\ output_file' = SubSeq(output_file, 1, m)
         /\ flushed' = m
    /\ ProcessGone
    /\ UNCHANGED << world, ret, checkpoint_file, durable_batch, output_exists,
                    runs, clientVars, articles, remoteVars >>

\* main, lines 439-442: the user interrupts a run of parse_phase. The
\* KeyboardInterrupt passes the handlers for Exception of the loop and of
\* save_checkpoint (so a temp file of a save in progress stays), the with
\* block closes the output file (what was written is on disk), and the
\* handler of main prints its message and exits: it saves nothing.
Interrupt ==
    /\ world = "parse"
    /\ pc \notin {"idle", "api"}
    /\ pc' = "idle"
    /\ prev_end' = IF pc = "t_move" THEN "killed_before_move" ELSE "killed"
    /\ tmp' = NoFile
    /\ tmp_left' = (tmp_left \/ tmp # NoFile)
    /\ flushed' = Len(output_file)
    /\ ProcessGone
    /\ UNCHANGED << world, ret, checkpoint_file, durable_batch, output_exists,
                    output_file, runs, clientVars, articles, remoteVars >>

InitParse ==
    /\ world = "parse"
    /\ articles = <<>>
    /\ pc = "idle"
    /\ ret = "idle"
    /\ InitDisk
    /\ InitProcess

NextParse ==
    \/ \E r \in BOOLEAN, limit \in Limits : ParseStart(r, limit)
    \/ ParseOpenOutput
    \/ ParseUnit
    \/ ParseClose
    \/ ParseReturn
    \/ TrackerCreateTemp
    \/ TrackerDump
    \/ TrackerMove
    \/ TrackerCopy
    \/ Kill
    \/ Interrupt

SpecParse == InitParse /\ [][NextParse]_vars

(* -------------------------- BatchUploader ----------------------------- *)

\* BatchUploader's max_retries argument, as upload_phase passes it.
max_retries == 3

initialize_upload_checkpoint(total) ==
    [ total_articles        |-> total,
      uploaded_articles     |-> 0,
      current_batch         |-> 0,
      last_successful_batch |-> -1,
      failed_batches        |-> <<>>,
      statistics |-> [ successful_uploads |-> 0, failed_uploads |-> 0,
                       batches_completed  |-> 0, batches_failed |-> 0 ] ]

\* The file's content when it exists and parses, else None (after an error
\* log line when json.load raised).
load_upload_checkpoint(file) == IF file.kind = "json" THEN file.data ELSE None

\* A start at the last successful batch itself.
start_batch_resubmit(r, loaded) ==
    IF r /\ loaded # None THEN loaded.last_successful_batch ELSE 0

\* Lines 228-236.
start_batch_of(r, loaded) ==
    IF r /\ loaded # None THEN loaded.last_successful_batch + 1 ELSE 0

\* Line 242.
total_batches == (Len(articles) + batch_size - 1) \div batch_size

Min(a, b) == IF a < b THEN a ELSE b

\* Slices that start one unit early.
batch_of_overlap(b) ==
    SubSeq(articles, IF b = 0 THEN 1 ELSE b * batch_size,
           Min(b * batch_size + batch_size, Len(articles)))

\* Lines 248-250.
batch_of(b) ==
    SubSeq(articles, b * batch_size + 1,
           Min(b * batch_size + batch_size, Len(articles)))

\* A recording that puts every batch, failed ones included, at
\* last_successful_batch.
record_outcome_always(cp, b, uploaded, failed, error) ==
    LET c1 == [cp EXCEPT !.uploaded_articles = @ + uploaded,
                         !.statistics.successful_uploads = @ + uploaded,
                         !.statistics.failed_uploads = @ + failed,
                         !.last_successful_batch = b]
    IN  IF uploaded > 0
        THEN [c1 EXCEPT !.statistics.batches_completed = @ + 1]
        ELSE [c1 EXCEPT !.statistics.batches_failed = @ + 1,
                        !.failed_batches =
                            Append(@, [batch_num |-> b, error |-> error])]

\* A recording that counts a batch's successes and leaves
\* last_successful_batch one batch behind.
record_outcome_behind(cp, b, uploaded, failed, error) ==
    LET c1 == [cp EXCEPT !.uploaded_articles = @ + uploaded,
                         !.statistics.successful_uploads = @ + uploaded,
                         !.statistics.failed_uploads = @ + failed]
    IN  IF uploaded > 0
        THEN [c1 EXCEPT !.last_successful_batch = b - 1,
                        !.statistics.batches_completed = @ + 1]
        ELSE [c1 EXCEPT !.statistics.batches_failed = @ + 1,
                        !.failed_batches =
                            Append(@, [batch_num |-> b, error |-> error])]

\* Lines 257-276: the outcome of a batch, from the stats of its last attempt.
record_outcome(cp, b, uploaded, failed, error) ==
    LET c1 == [cp EXCEPT !.uploaded_articles = @ + uploaded,
                         !.statistics.successful_uploads = @ + uploaded,
                         !.statistics.failed_uploads = @ + failed]
    IN  IF uploaded > 0
        THEN [c1 EXCEPT !.last_successful_batch = b,
                        !.statistics.batches_completed = @ + 1]
        ELSE [c1 EXCEPT !.statistics.batches_failed = @ + 1,
                        !.failed_batches =
                            Append(@, [batch_num |-> b, error |-> error])]

\* Lines 222-246: load or initialize the checkpoint, the first batch.
UploadStart(r) ==
    /\ world = "upload"
    /\ pc = "idle"
    /\ runs < MaxRuns
    /\ runs' = runs + 1
    /\ resume' = r
    /\ LET loaded == IF r THEN load_upload_checkpoint(checkpoint_file) ELSE None
           sb == start_batch_of(r, loaded)
       IN  /\ checkpoint' = IF loaded # None THEN loaded
                            ELSE initialize_upload_checkpoint(Len(articles))
           /\ start_batch' = sb
           /\ batch_num' = sb
           /\ pc' = IF sb < total_batches THEN "u_attempt" ELSE "u_done"
    /\ load_failed' = (r /\ load_raises(checkpoint_file))
    /\ durable_batch' = IF r THEN durable_batch ELSE -1
    /\ save_failed' = FALSE
    /\ attempt' = 0
    /\ calls' = <<>>
    /\ sleeps' = 0
    /\ backoffs' = <<>>
    /\ upload_stats' = None
    /\ invoked' = 0
    /\ all_full' = TRUE
    /\ acked' = IF r THEN acked ELSE {}
    /\ exhausted' = IF r THEN exhausted ELSE {}
    /\ UNCHANGED << world, ret, checkpoint_file, tmp, tmp_left, outVars,
                    checkpoint_data, queryVars, idx, files_processed,
                    total_articles, output_mode, attempted, prev_end,
                    clientVars, articles >>

\* Lines 154-168: the stats _upload_batch returns. The uploader reports
\* outcome successes of the batch (its dict has no 'error' key, "" here), or
\* raises (outcome -1), which _upload_batch turns into stats with
\* uploaded = 0 and the error.
upload_batch(batch, outcome) ==
    IF outcome = -1
    THEN [uploaded |-> 0, failed |-> Len(batch), error |-> "raised"]
    ELSE [uploaded |-> outcome, failed |-> Len(batch) - outcome, error |-> ""]

\* Line 190; the uploader's success_rate is above 0 exactly when uploaded is.
attempt_successful(st) == st.uploaded > 0

\* The same delay before every retry.
backoff_delay_flat(a) == 2

\* Lines 183-184: the delay slept before attempt a (0, 1, 2, ...), a > 0.
backoff_delay(a) == a * 2

\* One pass more than range(max_retries) has.
last_attempt_late(a) == a = max_retries

\* Line 181: the last pass of for attempt in range(self.max_retries).
last_attempt(a) == a = max_retries - 1

\* Line 270: stats.get('error', 'Unknown error').
error_of(st) == IF st.error = "" THEN "Unknown error" ELSE st.error

\* One attempt of _retry_with_backoff (lines 181-203) with _upload_batch
\* (154-168). After a success, or after the last attempt, lines 257-279
\* record the outcome and the save starts; else the backoff is slept and the
\* next attempt follows.
UploadAttempt ==
    /\ pc = "u_attempt"
    /\ LET batch == batch_of(batch_num)
           cp == [checkpoint EXCEPT !.current_batch = batch_num]
       IN  \E outcome \in (0..Len(batch)) \cup {-1} :
             LET st == upload_batch(batch, outcome) IN
                 /\ upload_stats' = st
                 /\ invoked' = invoked + 1
                 /\ all_full' = (all_full /\ st.uploaded = Len(batch))
                 /\ calls' = IF attempt = 0 THEN Append(calls, batch_num) ELSE calls
                 /\ acked' = IF st.uploaded > 0 THEN acked \cup {batch_num} ELSE acked
                 /\ exhausted' =
                        IF st.uploaded > 0 THEN exhausted \ {batch_num}
                        ELSE IF last_attempt(attempt) /\ batch_num \notin acked
                             THEN exhausted \cup {batch_num}
                             ELSE exhausted
                 /\ IF attempt_successful(st) \/ last_attempt(attempt)
                    THEN /\ checkpoint' = record_outcome(cp, batch_num, st.uploaded,
                                                         st.failed, error_of(st))
                         /\ pc' = "us_create"
                         /\ ret' = "u_saved"
                         /\ UNCHANGED << attempt, backoffs >>
                    ELSE /\ checkpoint' = cp
                         /\ attempt' = attempt + 1
                         /\ backoffs' = Append(backoffs, backoff_delay(attempt + 1))
                         /\ UNCHANGED << pc, ret >>
    /\ UNCHANGED << world, diskVars, outVars, checkpoint_data, queryVars,
                    parseVars, runVars, save_failed, clientVars, articles,
                    start_batch, batch_num, sleeps >>

\* Lines 117-126 of _save_upload_checkpoint, as TrackerCreateTemp.
UploadCreateTemp ==
    /\ pc = "us_create"
    /\ \/ /\ tmp' = Empty
          /\ pc' = "us_dump"
          /\ UNCHANGED << save_failed, tmp_left >>
       \/ /\ pc' = ret
          /\ save_failed' = TRUE
          /\ UNCHANGED << tmp, tmp_left >>
    /\ UNCHANGED << world, ret, checkpoint_file, durable_batch, outVars, checkpoint_data,
                    queryVars, parseVars, runVars, clientVars, articles, remoteVars,
                    uploadVars >>

upload_dump(data) == Dumped(data)

\* Lines 127-128 and the end of the with block, as TrackerDump: tmp_path is
\* bound at 128, after json.dump.
UploadDump ==
    /\ pc = "us_dump"
    /\ \/ /\ tmp' = upload_dump(checkpoint)
          /\ pc' = "us_move"
          /\ UNCHANGED << save_failed, tmp_left >>
       \/ /\ tmp' = NoFile
          /\ tmp_left' = TRUE
          /\ pc' = ret
          /\ save_failed' = TRUE
       \/ /\ tmp' = NoFile
          /\ pc' = ret
          /\ save_failed' = TRUE
          /\ UNCHANGED tmp_left
    /\ UNCHANGED << world, ret, checkpoint_file, durable_batch, outVars, checkpoint_data,
                    queryVars, parseVars, runVars, clientVars, articles, remoteVars,
                    uploadVars >>

\* Line 131 and the handler at 135-141, as TrackerMove.
UploadMove ==
    /\ pc = "us_move"
    /\ \/ /\ checkpoint_file' = tmp
          /\ durable_batch' = checkpoint.last_successful_batch
          /\ tmp' = NoFile
          /\ pc' = ret
          /\ UNCHANGED save_failed
       \/ /\ checkpoint_file # NoFile
          /\ checkpoint_file' = Partial
          /\ pc' = "us_copy"
          /\ UNCHANGED << tmp, save_failed, durable_batch >>
       \/ /\ save_failed' = TRUE
          /\ tmp' = NoFile
          /\ pc' = ret
          /\ UNCHANGED << checkpoint_file, durable_batch >>
    /\ UNCHANGED << world, ret, tmp_left, outVars, checkpoint_data, queryVars,
                    parseVars, runVars, clientVars, articles, remoteVars, uploadVars >>

\* Line 131, shutil.move's copy, as TrackerCopy.
UploadCopy ==
    /\ pc = "us_copy"
    /\ \/ /\ checkpoint_file' = tmp
          /\ durable_batch' = checkpoint.last_successful_batch
          /\ UNCHANGED save_failed
       \/ /\ save_failed' = TRUE
          /\ UNCHANGED << checkpoint_file, durable_batch >>
    /\ tmp' = NoFile
    /\ pc' = ret
    /\ UNCHANGED << world, ret, tmp_left, outVars, checkpoint_data, queryVars,
                    parseVars, runVars, clientVars, articles, remoteVars, uploadVars >>

\* A loop that ends at the first batch without a success.
more_batches_while_ok(b) ==
    b + 1 < total_batches /\ upload_stats # None /\ upload_stats.uploaded > 0

\* A range with one index past the last batch.
more_batches_one_more(b) == b < total_batches

\* Line 246: range(start_batch, total_batches) has an index after b.
more_batches(b) == b + 1 < total_batches

\* A delay after every batch, the last one included.
rate_limited_always(b) == TRUE

\* Line 282: the batches followed by the rate-limit delay.
rate_limited(b) == b < total_batches - 1

\* Lines 281-284 and the next pass of the loop at 246.
UploadNext ==
    /\ pc = "u_saved"
    /\ sleeps' = IF rate_limited(batch_num) THEN sleeps + 1 ELSE sleeps
    /\ IF more_batches(batch_num)
       THEN /\ batch_num' = batch_num + 1
            /\ attempt' = 0
            /\ backoffs' = <<>>
            /\ invoked' = 0
            /\ pc' = "u_attempt"
       ELSE /\ pc' = "u_done"
            /\ UNCHANGED << batch_num, attempt, backoffs, invoked >>
    /\ upload_stats' = None
    /\ UNCHANGED << world, ret, diskVars, outVars, checkpoint_data, queryVars,
                    parseVars, runVars, save_failed, clientVars, articles, remoteVars,
                    checkpoint, start_batch, calls, all_full >>

\* Statistics that count every article as failed.
final_stats_all_failed(cp) ==
    LET n == Len(articles) IN
    [ total_articles    |-> n,
      uploaded          |-> cp.uploaded_articles,
      failed            |-> n,
      success_rate      |-> IF n > 0 THEN (cp.uploaded_articles * 100) \div n ELSE 0,
      batches_completed |-> cp.statistics.batches_completed,
      batches_failed    |-> cp.statistics.batches_failed,
      total_batches     |-> total_batches,
      failed_batches    |-> cp.failed_batches ]

\* Lines 287-298: the statistics upload_in_batches returns. success_rate is
\* the percentage rounded down to a whole number; the key failed_batches,
\* which the code sets only for a non-empty list, is the list itself.
final_stats(cp) ==
    LET n == Len(articles) IN
    [ total_articles    |-> n,
      uploaded          |-> cp.uploaded_articles,
      failed            |-> n - cp.uploaded_articles,
      success_rate      |-> IF n > 0 THEN (cp.uploaded_articles * 100) \div n ELSE 0,
      batches_completed |-> cp.statistics.batches_completed,
      batches_failed    |-> cp.statistics.batches_failed,
      total_batches     |-> total_batches,
      failed_batches    |-> cp.failed_batches ]

\* Lines 286-302: upload_in_batches returns its statistics.
UploadReturn ==
    /\ pc = "u_done"
    /\ pc' = "idle"
    /\ prev_end' = "returned"
    /\ ProcessGone
    /\ UNCHANGED << world, ret, diskVars, outVars, runs, clientVars, articles, remoteVars >>

InitUpload ==
    /\ world = "upload"
    /\ articles \in { [j \in 1..n |-> j] : n \in 0..NumArticles }
    /\ pc = "idle"
    /\ ret = "idle"
    /\ InitDisk
    /\ InitProcess

NextUpload ==
    \/ \E r \in BOOLEAN : UploadStart(r)
    \/ UploadAttempt
    \/ UploadCreateTemp
    \/ UploadDump
    \/ UploadMove
    \/ UploadCopy
    \/ UploadNext
    \/ UploadReturn
    \/ Kill

SpecUpload == InitUpload /\ [][NextUpload]_vars

\* A run of upload_in_batches that is left alone: every call it makes
\* returns and nothing kills the process, so the step it is at is taken.
UploadRun ==
    \/ UploadAttempt
    \/ UploadCreateTemp
    \/ UploadDump
    \/ UploadMove
    \/ UploadCopy
    \/ UploadNext
    \/ UploadReturn

NextUploadLive ==
    \/ \E r \in BOOLEAN : UploadStart(r)
    \/ UploadRun

SpecUploadLive == InitUpload /\ [][NextUploadLive]_vars /\ WF_vars(UploadRun)

(* ------------------------ the two subcommands ------------------------- *)

Init == InitParse \/ InitUpload

Next ==
    \/ \E r \in BOOLEAN, limit \in Limits : ParseStart(r, limit)
    \/ ParseOpenOutput
    \/ ParseUnit
    \/ ParseClose
    \/ ParseReturn
    \/ TrackerCreateTemp
    \/ TrackerDump
    \/ TrackerMove
    \/ TrackerCopy
    \/ \E r \in BOOLEAN : UploadStart(r)
    \/ UploadAttempt
    \/ UploadCreateTemp
    \/ UploadDump
    \/ UploadMove
    \/ UploadCopy
    \/ UploadNext
    \/ UploadReturn
    \/ Kill
    \/ Interrupt

Spec == Init /\ [][Next]_vars

(* ---------------------- claims on the tracker ------------------------- *)

NormProcessed == { normpath(p) : p \in Range(checkpoint_data.processed_file_paths) }

\* C1, as stated: once mark_processed(k) was called, no later
\* get_remaining_files result contains k, whatever mark_processed, mark_failed,
\* update_statistics and save_checkpoint calls came in between.
C1_Original ==
    \A k \in marked : \A j \in 1..Len(remaining_files) : remaining_files[j] # k

\* C1, amended: once mark_processed(k) was called, no later
\* get_remaining_files result contains k or an id equal to k after
\* normalization, whatever mark_processed, mark_failed, update_statistics and
\* save_checkpoint() calls came in between, as long as no save_checkpoint call
\* passed a data argument (which replaces the checkpoint data, as reset does).
C1_NoDoubleProcessing ==
    \A k \in marked_kept : \A j \in 1..Len(remaining_files) :
        normpath(remaining_files[j]) # normpath(k)

\* A query whose workload holds a marked id, after a failure was recorded and
\* a save was started in between.
C1_Witness ==
    /\ world = "api"
    /\ pc = "api"
    /\ \E k \in marked_kept : k \in Range(all_files)
    /\ Len(checkpoint_data.failed_files) > 0
    /\ calls_made = MaxCalls

\* The positions of all_files a filter keeps, and the m-th of them.
KeptPositions(files, dropped) == { j \in 1..Len(files) : ~dropped[j] }
NthOf(K, m) == CHOOSE j \in K : Cardinality({ i \in K : i <= j }) = m
IsFilterOf(result, files, dropped) ==
    LET K == KeptPositions(files, dropped) IN
    /\ Len(result) = Cardinality(K)
    /\ \A m \in 1..Len(result) : result[m] = files[NthOf(K, m)]

\* C2, as stated: the result is exactly the elements of all_files that are
\* not in processed_file_paths, in the order of all_files.
C2_Original ==
    IsFilterOf(remaining_files, all_files,
               [j \in 1..Len(all_files) |->
                   all_files[j] \in Range(checkpoint_data.processed_file_paths)])

\* C2, amended: the result is exactly the elements of all_files whose
\* normalized path is not the normalized path of an entry of
\* processed_file_paths, in the order of all_files; the returned units and the
\* processed units of the workload (compared after normalization) are
\* disjoint and together are the workload.
C2_RemainingExact ==
    LET done == { f \in Range(all_files) : normpath(f) \in NormProcessed } IN
    /\ IsFilterOf(remaining_files, all_files,
                  [j \in 1..Len(all_files) |-> normpath(all_files[j]) \in NormProcessed])
    /\ Range(remaining_files) \cap done = {}
    /\ Range(remaining_files) \cup done = Range(all_files)

\* A query that keeps one unit and drops one that is processed under another
\* spelling.
C2_Witness ==
    /\ world = "api"
    /\ Len(all_files) = 2
    /\ Len(remaining_files) = 1
    /\ all_files[1] \notin Range(checkpoint_data.processed_file_paths)
    /\ remaining_files[1] = all_files[2]

(* ------------------------ claims on the runs -------------------------- *)

\* The records of the output file.
Records(out) == { j \in 1..Len(out) : out[j].t = "article" }

\* C3, as stated: in a run with resume=true that follows a run which returned
\* (here: without a unit marked failed), no unit is handed to the
\* collaborators, so no record is written.
C3_IdempotentResume ==
    (world = "parse" /\ pc # "idle" /\ resume /\ prev_end = "returned")
        => attempted = <<>>

\* C4, as stated: in a run with resume=true that follows a killed run, no
\* record is in the output file more than once.
C4_NoRecordTwice ==
    (world = "parse" /\ resume /\ prev_end \in {"killed", "killed_before_move"})
        => \A i, j \in Records(output_file) :
               output_file[i] = output_file[j] => i = j

(* ------------------------ claims on the saves ------------------------- *)

\* The data a save in progress is writing.
SavedData == IF world = "upload" THEN checkpoint ELSE checkpoint_data

\* C5, as stated: whenever a step changes what is at the checkpoint path, the
\* path then holds the complete serialization of the data being saved; a
\* kill after the temp file was written and before the rename leaves it as it
\* was. So the path holds at any time what it held before or the complete
\* new checkpoint.
C5_CheckpointAtomicity ==
    [][ /\ checkpoint_file' # checkpoint_file =>
              checkpoint_file' = Dumped(SavedData)
        /\ (pc \in {"t_move", "us_move"} /\ pc' = "idle") =>
              checkpoint_file' = checkpoint_file ]_vars

\* C6, as stated: a run that found a malformed checkpoint hands no unit to
\* the collaborators and no batch to the uploader.
C6_CorruptAborts ==
    load_failed => (attempted = <<>> /\ calls = <<>>)

\* C7, as stated: after a save failed, the run hands no further unit to the
\* collaborators and no further batch to the uploader.
C7_FailedSaveAborts ==
    [][ save_failed => /\ Len(attempted') <= Len(attempted)
                       /\ Len(calls') <= Len(calls)
                       /\ attempt' <= attempt ]_vars

\* The steps of a save.
SavePcs == {"t_create", "t_dump", "t_move", "t_copy",
            "us_create", "us_dump", "us_move", "us_copy"}

\* C8, as stated: the step in which a save fails (it returns without the new
\* checkpoint at the path) leaves no temp file behind and leaves the
\* checkpoint file as it was, which is not a partly written one.
C8_FailedSaveCleansUp ==
    [][ (pc \in SavePcs /\ pc' = ret /\ checkpoint_file' # Dumped(SavedData)) =>
            /\ tmp' = NoFile
            /\ tmp_left' = tmp_left
            /\ checkpoint_file' = checkpoint_file
            /\ checkpoint_file # Partial ]_vars

(* ----------------------- claims on the batches ------------------------ *)

\* C9: the run starts at last_successful_batch + 1 of the checkpoint it
\* loaded when resume is true (at 0 when there was none to load), at 0 when
\* resume is false; the first batch handed to the uploader is the start
\* batch and none has a lower index.
C9_StartBatch ==
    [][ /\ (pc = "idle" /\ pc' # "idle" /\ world = "upload") =>
              start_batch' =
                  IF resume' /\ checkpoint_file.kind = "json"
                  THEN checkpoint_file.data.last_successful_batch + 1
                  ELSE 0
        /\ \A j \in 1..Len(calls') : calls'[j] >= start_batch'
        /\ calls' # <<>> => calls'[1] = start_batch' ]_vars

\* A resumed run that started past batch 0 and handed a batch to the
\* uploader.
C9_Witness ==
    /\ world = "upload"
    /\ resume
    /\ start_batch > 0
    /\ calls # <<>>

\* C10, as stated: last_successful_batch is at least -1; no step of a run
\* makes the value in its checkpoint smaller; and the value in the checkpoint
\* of a run with resume=true is never smaller than the value of the last
\* checkpoint that was saved at the checkpoint path.
C10_LastSuccessfulMonotone ==
    [][ /\ (checkpoint # None /\ checkpoint' # None) =>
              /\ checkpoint'.last_successful_batch >= checkpoint.last_successful_batch
              /\ checkpoint.last_successful_batch >= -1
        /\ (world = "upload" /\ resume' /\ checkpoint' # None) =>
              checkpoint'.last_successful_batch >= durable_batch' ]_vars

(* ----------------------- claims on delivery -------------------------- *)

\* C11, as stated: a run with resume=true starts at or before every batch
\* that used up its attempts in an earlier run of the chain and was never
\* acknowledged, so that the batch is attempted again.
C11_AtLeastOnce ==
    [][ (world = "upload" /\ pc = "idle" /\ pc' # "idle" /\ resume') =>
            \A b \in exhausted : start_batch' <= b ]_vars

\* C12, as stated: a batch the uploader acknowledged, in this run or in an
\* earlier run of the chain, is not handed to the uploader again.
C12_NoResubmit ==
    (world = "upload" /\ pc = "u_attempt") => batch_num \notin acked

\* The steps of upload_in_batches between the return of _retry_with_backoff
\* and the next batch.
AfterAttempts == {"us_create", "us_dump", "us_move", "us_copy", "u_saved"}

\* C13: _upload_batch is invoked at most max_retries times for one batch;
\* it is invoked again only after an attempt that reported zero successes;
\* a batch whose attempts all reported zero was invoked exactly max_retries
\* times; an attempt that reported a success, a partial one included, was
\* the last of its batch.
C13_RetryPolicy ==
    world = "upload" =>
        /\ invoked <= max_retries
        /\ (pc = "u_attempt" /\ invoked > 0) =>
               (upload_stats # None /\ upload_stats.uploaded = 0)
        /\ pc \in AfterAttempts =>
               /\ upload_stats # None
               /\ invoked >= 1
               /\ upload_stats.uploaded = 0 => invoked = max_retries

\* A batch of two was recorded with one success and the next batch used up
\* its attempts.
C13_Witness ==
    /\ world = "upload"
    /\ pc = "u_saved"
    /\ batch_num = 1
    /\ upload_stats # None
    /\ upload_stats.uploaded = 0
    /\ invoked = max_retries
    /\ checkpoint.uploaded_articles = 1
    /\ checkpoint.last_successful_batch = 0
    /\ Len(checkpoint.failed_batches) = 1

\* C14: the step that records a batch adds the success count of the
\* batch's final attempt to uploaded_articles; with a count above zero it
\* sets last_successful_batch to the batch index and leaves failed_batches
\* alone; with a count of zero it leaves last_successful_batch alone and
\* appends exactly one entry, for this batch, to failed_batches.
C14_OutcomeRecorded ==
    [][ (world = "upload" /\ pc = "u_attempt" /\ pc' = "us_create") =>
          LET fb == checkpoint.failed_batches
              fb2 == checkpoint'.failed_batches
          IN  /\ checkpoint'.uploaded_articles =
                     checkpoint.uploaded_articles + upload_stats'.uploaded
              /\ IF upload_stats'.uploaded > 0
                 THEN /\ checkpoint'.last_successful_batch = batch_num
                      /\ fb2 = fb
                 ELSE /\ checkpoint'.last_successful_batch =
                             checkpoint.last_successful_batch
                      /\ Len(fb2) = Len(fb) + 1
                      /\ SubSeq(fb2, 1, Len(fb)) = fb
                      /\ fb2[Len(fb2)].batch_num = batch_num ]_vars

\* Batch 0 was recorded as failed and batch 1, after it, with two successes.
C14_Witness ==
    /\ world = "upload"
    /\ pc = "us_create"
    /\ batch_num = 1
    /\ upload_stats # None
    /\ upload_stats.uploaded = 2
    /\ checkpoint.uploaded_articles = 2
    /\ checkpoint.last_successful_batch = 1
    /\ Len(checkpoint.failed_batches) = 1
    /\ checkpoint.failed_batches[1].batch_num = 0

\* C15, as stated: once the delivery collaborator raised, the run is over:
\* _upload_batch is not invoked again for the batch and the run goes on to
\* no later batch.
C15_RaiseAborts ==
    [][ (world = "upload" /\ upload_stats # None /\ upload_stats.error = "raised") =>
            /\ ~(invoked' > invoked)
            /\ ~(batch_num' > batch_num) ]_vars

(* ------------------------ claims on phase 1 ---------------------------- *)

\* The units with an entry in failed_files.
FailedPaths == { checkpoint_data.failed_files[j].path :
                     j \in 1..Len(checkpoint_data.failed_files) }

\* C16: when the loop of parse_phase is over, every unit that remained was
\* attempted, in order, whatever units raised before it, and each of them is
\* processed or has an entry in failed_files; at the end of a run with
\* resume=false every unit of the workload is exactly one of the two, and
\* the checkpoint data the summary is made from has
\* processed_files + len(failed_files) = total_files; the checkpoint file
\* holds the same data when no save of the run failed.
C16_FailedUnitsSkipped ==
    (world = "parse" /\ pc = "p_done") =>
        /\ attempted = remaining_files
        /\ \A j \in 1..Len(remaining_files) :
               \/ is_processed(checkpoint_data, remaining_files[j])
               \/ remaining_files[j] \in FailedPaths
        /\ ~resume =>
               /\ \A j \in 1..Len(all_files) :
                      is_processed(checkpoint_data, all_files[j])
                          # (all_files[j] \in FailedPaths)
               /\ checkpoint_data.processed_files
                      + Len(checkpoint_data.failed_files)
                          = checkpoint_data.total_files
               /\ checkpoint_data.total_files = Len(all_files)
               /\ ~save_failed => checkpoint_file = Dumped(checkpoint_data)

\* A run with resume=false ended; its first unit raised and its second unit
\* was processed.
C16_Witness ==
    /\ world = "parse"
    /\ pc = "p_done"
    /\ ~resume
    /\ Len(all_files) >= 2
    /\ all_files[1] \in FailedPaths
    /\ is_processed(checkpoint_data, all_files[2])

\* C17: after mark_processed(p), a call mark_processed(q) with q = p, or
\* with q equal to p after normpath, changes neither processed_file_paths
\* nor processed_files; so the list holds one path for each normalized id
\* mark_processed was called with, and processed_files is its length.
C17_MarkProcessedIdempotent ==
    world = "api" =>
        /\ \A p \in Paths, q \in Paths :
               normpath(p) = normpath(q) =>
                   LET once  == mark_processed(checkpoint_data, p)
                       twice == mark_processed(once, q)
                   IN  /\ twice.processed_file_paths = once.processed_file_paths
                       /\ twice.processed_files = once.processed_files
        /\ Len(checkpoint_data.processed_file_paths)
               = Cardinality({ normpath(k) : k \in marked_kept })
        /\ checkpoint_data.processed_files
               = Len(checkpoint_data.processed_file_paths)

\* Three calls, all of mark_processed, with an id and with a differently
\* written id of the same file, one of them twice; the list holds one path.
C17_Witness ==
    /\ world = "api"
    /\ pc = "api"
    /\ calls_made = 3
    /\ marked_kept = { <<"a">>, <<"c", "..", ".", "a">> }
    /\ Len(checkpoint_data.processed_file_paths) = 1
    /\ checkpoint_data.processed_files = 1
    /\ checkpoint_data.failed_files = <<>>
    /\ checkpoint_data.statistics = initialize_checkpoint.statistics
    /\ checkpoint_file \in {NoFile, Corrupt}
    /\ ~save_failed
    /\ ~tmp_left

\* C18: a pass of the loop that appends to failed_files changes neither
\* processed_file_paths nor processed_files; and a run with resume=true
\* keeps, among its remaining files, every unit of the workload that the
\* loaded checkpoint lists as failed and not as processed.
C18_MarkFailedFrame ==
    [][ world = "parse" =>
          /\ ( /\ pc = "p_loop"
                /\ Len(checkpoint_data'.failed_files)
                       > Len(checkpoint_data.failed_files) ) =>
                 /\ checkpoint_data'.processed_file_paths
                        = checkpoint_data.processed_file_paths
                 /\ checkpoint_data'.processed_files
                        = checkpoint_data.processed_files
          /\ (pc = "idle" /\ pc' # "idle" /\ resume') =>
                 \A j \in 1..Len(all_files') :
                     ( /\ \E n \in 1..Len(checkpoint_data'.failed_files) :
                              checkpoint_data'.failed_files[n].path = all_files'[j]
                       /\ ~is_processed(checkpoint_data', all_files'[j]) )
                     => all_files'[j] \in Range(remaining_files') ]_vars

\* A run with resume=true ended in which a unit was processed that an
\* earlier run had marked failed.
C18_Witness ==
    /\ world = "parse"
    /\ pc = "p_done"
    /\ resume
    /\ Len(checkpoint_data.failed_files) = 1
    /\ \E j \in 1..Len(remaining_files) :
           /\ remaining_files[j] \in FailedPaths
           /\ is_processed(checkpoint_data, remaining_files[j])

\* The processed units of the checkpoint at the checkpoint path.
DiskProcessed ==
    IF checkpoint_file.kind = "json"
    THEN { normpath(p) : p \in Range(checkpoint_file.data.processed_file_paths) }
    ELSE {}

\* C19, as stated: between two passes of the loop of parse_phase, and when
\* the loop is over, fewer than CHECKPOINT_SAVE_INTERVAL of the units marked
\* processed in memory are missing from the checkpoint on disk.
C19_FlushBound ==
    (world = "parse" /\ pc = "p_loop") =>
        Cardinality(NormProcessed \ DiskProcessed) < CHECKPOINT_SAVE_INTERVAL

\* C20, as stated: when a run is about to submit a batch after the first
\* one it executes, the checkpoint file holds the checkpoint with the outcome
\* of the batch before it.
C20_CheckpointPerBatch ==
    (world = "upload" /\ pc = "u_attempt" /\ invoked = 0 /\ batch_num > start_batch) =>
        checkpoint_file = upload_dump(checkpoint)

\* C21: in a run of upload_in_batches the rate-limit delay has been slept
\* once for each batch before the current one; when the run is over it was
\* slept once less than the number of batches submitted, and the last
\* batch, index total_batches - 1, was not followed by one.
C21_RateLimit ==
    (world = "upload" /\ pc # "idle") =>
        /\ sleeps = batch_num - start_batch
        /\ (pc = "u_done" /\ calls # <<>>) =>
               /\ sleeps = Len(calls) - 1
               /\ batch_num = total_batches - 1

\* A run over three batches is over: two delays.
C21_Witness ==
    /\ world = "upload"
    /\ pc = "u_done"
    /\ start_batch = 0
    /\ Len(calls) = 3
    /\ total_batches = 3
    /\ sleeps = 2

\* The batches 0 .. k-1 one after the other.
RECURSIVE BatchesUpTo(_)
BatchesUpTo(k) == IF k = 0 THEN <<>> ELSE BatchesUpTo(k - 1) \o batch_of(k - 1)

\* C22: the batches of upload_in_batches are slices of the article list in
\* list order whose concatenation is the list; there are ceil(n / batch_size)
\* of them; each but the last has batch_size articles and the last has
\* between 1 and batch_size; every article is in exactly one batch.
C22_BatchPartition ==
    world = "upload" =>
        LET n == Len(articles) IN
        /\ BatchesUpTo(total_batches) = articles
        /\ total_batches * batch_size >= n
        /\ total_batches > 0 => (total_batches - 1) * batch_size < n
        /\ n = 0 => total_batches = 0
        /\ \A b \in 0..(total_batches - 2) : Len(batch_of(b)) = batch_size
        /\ total_batches > 0 =>
               /\ Len(batch_of(total_batches - 1)) >= 1
               /\ Len(batch_of(total_batches - 1)) <= batch_size
        /\ \A j \in 1..n :
               Cardinality({ b \in 0..(total_batches - 1) :
                               \E i \in 1..Len(batch_of(b)) :
                                   batch_of(b)[i] = articles[j] }) = 1

\* Every batch of a list that batch_size does not divide was submitted: the
\* last batch is shorter than the others.
C22_Witness ==
    /\ world = "upload"
    /\ pc = "u_done"
    /\ Len(calls) = total_batches
    /\ total_batches >= 2
    /\ Len(batch_of(total_batches - 1)) < batch_size

\* C23, as stated: when a run with resume=true replaces a checkpoint by a
\* new one, no counter of statistics is lower in the new checkpoint than in
\* the one it replaces.
C23_StatisticsMonotone ==
    [][ ( /\ world = "parse"
          /\ resume'
          /\ checkpoint_file.kind = "json"
          /\ checkpoint_file'.kind = "json" ) =>
            \A k \in StatKeys :
                checkpoint_file'.data.statistics[k]
                    >= checkpoint_file.data.statistics[k] ]_vars

\* A JSON array: the opening bracket, articles with one comma between two
\* of them, the closing bracket, nothing else.
WellFormed(out) ==
    /\ Len(out) >= 2
    /\ out[1] = OpenBracket
    /\ out[Len(out)] = CloseBracket
    /\ Len(out) = 2 \/ (Len(out) - 2) % 2 = 1
    /\ \A j \in 2..(Len(out) - 1) :
           IF j % 2 = 0 THEN out[j].t = "article" ELSE out[j] = Comma

\* C24, as stated: when parse_phase has written the closing bracket and
\* made its final save, the output file is a well-formed array.
C24_WellFormedOutput ==
    (world = "parse" /\ pc = "p_done") => WellFormed(output_file)

C26_EveryBatchOnce ==
    (world = "upload" /\ pc # "idle") =>
        /\ \A j \in 1..Len(calls) : calls[j] = start_batch + j - 1
        /\ pc \in AfterAttempts => Len(calls) = batch_num - start_batch + 1
        /\ pc = "u_done" =>
               Len(calls) = IF start_batch < total_batches
                            THEN total_batches - start_batch ELSE 0

\* A run over three batches is over; the first batch had no success.
C26_Witness ==
    /\ world = "upload"
    /\ pc = "u_done"
    /\ calls = << 0, 1, 2 >>
    /\ Len(checkpoint.failed_batches) >= 1
    /\ checkpoint.failed_batches[1].batch_num = 0

(* ------------------------ claims on the resume ------------------------- *)

\* C27, as stated: a run of either phase that is started with resume=true
\* begins from the checkpoint at the checkpoint path, never from an empty
\* one made up because that file is missing or unreadable.
C27_FreshOnlyOnRequest ==
    [][ (world \in {"parse", "upload"} /\ pc = "idle" /\ pc' # "idle" /\ resume') =>
            checkpoint_file.kind = "json" ]_vars

\* A run of phase 1 has made its final save with every unit of the workload
\* processed, or a run of phase 2 is past its last batch with all articles
\* of all batches delivered.
CompletedAllOk ==
    \/ /\ world = "parse"
       /\ pc = "p_done"
       /\ \A j \in 1..Len(all_files) : is_processed(checkpoint_data, all_files[j])
    \/ /\ world = "upload"
       /\ pc = "u_done"
       /\ articles # <<>>
       /\ checkpoint.failed_batches = <<>>
       /\ checkpoint.statistics.failed_uploads = 0

\* The checkpoint file shows 100% completion.
ShowsComplete ==
    /\ checkpoint_file.kind = "json"
    /\ world = "parse" =>
           /\ checkpoint_file.data.processed_files = checkpoint_file.data.total_files
           /\ \A j \in 1..Len(all_files) :
                  is_processed(checkpoint_file.data, all_files[j])
    /\ world = "upload" =>
           checkpoint_file.data.uploaded_articles = checkpoint_file.data.total_articles

\* C28, as stated: a step that completes a run in which every unit
\* succeeded leaves a checkpoint file showing 100% completion, and no step
\* removes the checkpoint file.
C28_CompletionOnDisk ==
    [][ /\ CompletedAllOk' => ShowsComplete'
        /\ checkpoint_file # NoFile => checkpoint_file' # NoFile ]_vars

\* What C29 has in common with its amended form: in a run with resume=false
\* in which every call of _upload_batch delivered its whole batch, each
\* batch was invoked once, and the statistics of the finished run report
\* ceil(n / batch_size) batches, uploaded = n, failed = 0, no failed batch.
AllFullStats ==
    LET n == Len(articles)
        fs == final_stats(checkpoint)
    IN  /\ pc \in AfterAttempts => invoked = 1
        /\ pc = "u_done" =>
               /\ Len(calls) = total_batches
               /\ fs.total_batches * batch_size >= n
               /\ fs.total_batches > 0 => (fs.total_batches - 1) * batch_size < n
               /\ fs.total_articles = n
               /\ fs.uploaded = n
               /\ fs.failed = 0
               /\ fs.failed_batches = <<>>
               /\ fs.batches_failed = 0
               /\ fs.batches_completed = fs.total_batches

\* C29, as stated: in a run with resume=false in which every call of
\* _upload_batch delivers its whole batch, each batch is invoked once and
\* the statistics returned report ceil(n / batch_size) batches, uploaded = n,
\* failed = 0, no failed batch and a success rate of 100%.
C29_Original ==
    (world = "upload" /\ ~resume /\ all_full /\ pc # "idle") =>
        /\ AllFullStats
        /\ pc = "u_done" => final_stats(checkpoint).success_rate = 100

\* C29, amended: in a run with resume=false in which every call of
\* _upload_batch delivers its whole batch, each batch is invoked once and
\* the statistics returned report ceil(n / batch_size) batches, uploaded = n,
\* failed = 0 and no failed batch; the success rate reported is 100% when
\* the list of articles is not empty, and 0 when it is empty.
C29_AllSucceed ==
    (world = "upload" /\ ~resume /\ all_full /\ pc # "idle") =>
        /\ AllFullStats
        /\ pc = "u_done" =>
               final_stats(checkpoint).success_rate
                   = IF articles = <<>> THEN 0 ELSE 100

\* A run with resume=false over several batches, the last one shorter, is
\* over and every call delivered its whole batch.
C29_Witness ==
    /\ world = "upload"
    /\ pc = "u_done"
    /\ ~resume
    /\ all_full
    /\ total_batches >= 2
    /\ Len(articles) % batch_size # 0
    /\ final_stats(checkpoint).uploaded = Len(articles)

\* C30, as stated: while a run of parse_phase is under way, every processed
\* path of its checkpoint data is a unit of the workload the run scanned
\* (after the limit was applied).
C30_ProcessedInWorkload ==
    (world = "parse" /\ pc # "idle") =>
        NormProcessed \subseteq { normpath(f) : f \in Range(all_files) }

(* --------------------- claims on the tracker's data -------------------- *)

\* C31: whatever mark_processed, mark_failed and update_statistics calls a
\* tracker has seen since its data was last reset, no two entries of
\* processed_file_paths are equal, or equal after normpath, every id
\* mark_processed was called with is among them, and processed_files is the
\* length of the list.
C31_NoDuplicates ==
    world = "api" =>
        LET paths == checkpoint_data.processed_file_paths IN
        /\ \A i, j \in 1..Len(paths) :
               normpath(paths[i]) = normpath(paths[j]) => i = j
        /\ \A k \in marked_kept : is_processed(checkpoint_data, k)
        /\ checkpoint_data.processed_files = Len(paths)

\* mark_processed was called with two spellings of one file and mark_failed
\* was called; one path is stored.
C31_Witness ==
    /\ world = "api"
    /\ pc = "api"
    /\ marked_kept = { <<"a">>, <<"c", "..", ".", "a">> }
    /\ Len(checkpoint_data.failed_files) = 1
    /\ Len(checkpoint_data.processed_file_paths) = 1
    /\ checkpoint_data.processed_files = 1

\* s is the beginning of t.
IsPrefix(s, t) == Len(s) <= Len(t) /\ SubSeq(t, 1, Len(s)) = s

\* C32, as stated, for parse_phase: a pass of the loop appends at most one
\* entry to failed_files and changes none; a run with resume=true starts
\* with the entries the checkpoint file held and keeps no unit out of the
\* remaining files because of them; and while such a run is under way every
\* entry the checkpoint file held stays in the checkpoint file.
C32_FailedFilesAppendOnly ==
    [][ world = "parse" =>
          /\ (pc # "idle" /\ pc' # "idle") =>
                 /\ IsPrefix(checkpoint_data.failed_files, checkpoint_data'.failed_files)
                 /\ Len(checkpoint_data'.failed_files)
                        <= Len(checkpoint_data.failed_files) + 1
          /\ (pc = "idle" /\ pc' # "idle" /\ resume' /\ checkpoint_file.kind = "json") =>
                 /\ checkpoint_data'.failed_files = checkpoint_file.data.failed_files
                 /\ \A j \in 1..Len(all_files') :
                        ~is_processed(checkpoint_data', all_files'[j])
                            => all_files'[j] \in Range(remaining_files')
          /\ ( /\ resume'
                /\ checkpoint_file.kind = "json"
                /\ checkpoint_file.data.failed_files # <<>> ) =>
                 /\ checkpoint_file'.kind = "json"
                 /\ IsPrefix(checkpoint_file.data.failed_files,
                             checkpoint_file'.data.failed_files) ]_vars

(* ---------------------- claims on the run's phases --------------------- *)

\* The state of the phase's state machine a run of parse_phase is in:
\* 0 NOT_STARTED (no run), 1 SCANNING (lines 125-137: scan, filter, first
\* save), 2 PROCESSING (the loop), 3 FLUSHING (the final save), 4 DONE.
PhaseOf(p, r) ==
    LET at == IF p \in SavePcs THEN r ELSE p IN
    CASE at = "idle"    -> 0
      [] at = "p_saved" -> 1
      [] at = "p_loop"  -> 2
      [] at = "p_done"  -> IF p = "p_done" THEN 4 ELSE 3
      [] OTHER          -> 0

\* A step that ends a run by returning (not by a kill).
Returns == pc # "idle" /\ pc' = "idle" /\ prev_end' \notin {"killed", "killed_before_move"}

\* The part of C33 that holds on every path: a step of a run stays in its
\* state or moves to the next one; units are handed to the collaborators in
\* PROCESSING only, so after the scan; the final save starts when the last
\* remaining unit was attempted.
PhaseOrder ==
    /\ pc' # "idle" =>
           \/ PhaseOf(pc', ret') = PhaseOf(pc, ret)
           \/ PhaseOf(pc', ret') = PhaseOf(pc, ret) + 1
    /\ (pc # "idle" /\ pc' # "idle" /\ attempted' # attempted) =>
           /\ PhaseOf(pc, ret) = 2
           /\ all_files' = all_files
    /\ (PhaseOf(pc, ret) = 2 /\ PhaseOf(pc', ret') = 3) =>
           attempted = remaining_files

C34_InterruptSaved ==
    [][ Interrupt => NormProcessed \subseteq DiskProcessed ]_vars

(* ------------------- claims on the upload counters -------------------- *)

\* The articles of the batches 0..b of the list.
ArticlesUpTo(b) == Min((b + 1) * batch_size, Len(articles))

\* The counter of a checkpoint is within its bounds, and holds no more than
\* the batches up to last_successful_batch have articles.
CountedOnce(cp) ==
    /\ 0 <= cp.uploaded_articles
    /\ cp.uploaded_articles <= cp.total_articles
    /\ cp.total_articles = Len(articles)
    /\ cp.uploaded_articles <= ArticlesUpTo(cp.last_successful_batch)

\* C35, as stated: in every state of a run of upload_in_batches, first or
\* resumed, over the same articles and batch size, the checkpoint in memory
\* and the checkpoint on disk have 0 <= uploaded_articles <= total_articles,
\* and uploaded_articles counts the successes of a batch at most once: it is
\* at most the number of articles in the batches up to
\* last_successful_batch.
C35_UploadedBounded ==
    world = "upload" =>
        /\ checkpoint # None => CountedOnce(checkpoint)
        /\ checkpoint_file.kind = "json" => CountedOnce(checkpoint_file.data)

\* C35's case: a resumed run that started after the first batch has counted
\* every article of a list of three batches, and its last save went through.
C35_Witness ==
    /\ world = "upload"
    /\ pc = "u_done"
    /\ resume
    /\ start_batch > 0
    /\ total_batches = 3
    /\ checkpoint.uploaded_articles = Len(articles)
    /\ checkpoint_file.kind = "json"
    /\ checkpoint_file.data = checkpoint

\* A run of upload_in_batches returns.
UploadReturns == world = "upload" /\ pc = "u_done" /\ pc' = "idle"

\* C36, as stated: when a run of upload_in_batches whose final batch
\* succeeded returns, a run with resume=true over the same articles finds on
\* disk a checkpoint that starts it past the last batch and holds the
\* uploaded count the earlier run returned; and a resumed run that starts
\* past the last batch invokes the per-batch operation zero times, sleeps
\* zero times and returns with the checkpoint file as it found it.
C36_IdempotentUploadResume ==
    [][ /\ (/\ UploadReturns
            /\ total_batches > 0
            /\ checkpoint.last_successful_batch = total_batches - 1) =>
               LET loaded == load_upload_checkpoint(checkpoint_file) IN
               /\ loaded # None
               /\ start_batch_of(TRUE, loaded) >= total_batches
               /\ final_stats(loaded).uploaded = final_stats(checkpoint).uploaded
        /\ (/\ UploadReturns
            /\ resume
            /\ total_batches > 0
            /\ start_batch >= total_batches) =>
               /\ calls = <<>>
               /\ invoked = 0
               /\ sleeps = 0
               /\ checkpoint_file' = checkpoint_file
               /\ checkpoint_file.kind = "json"
               /\ checkpoint_file.data = checkpoint
      ]_vars

(* ------------------------ claims on a fresh run ------------------------ *)

\* The checkpoint a fresh run of parse_phase saves at line 137.
FreshCheckpoint == [reset EXCEPT !.total_files = Len(all_files)]

\* C37, as stated: a run with resume=false ignores the checkpoint on disk.
\* In phase 1 the tracker is reset (what it holds as processed was attempted
\* by this run), every unit of the workload is remaining and, when the run
\* is over, was attempted, and when the first unit is about to be processed
\* a checkpoint on disk is the empty one of this run. In phase 2 the run
\* starts at batch 0 from a new checkpoint with last_successful_batch = -1
\* and uploaded_articles = 0 and, when it is over, has submitted every batch
\* from index 0.
C37_FreshIgnoresCheckpoint ==
    /\ (world = "parse" /\ pc # "idle" /\ ~resume) =>
          /\ remaining_files = all_files
          /\ Range(checkpoint_data.processed_file_paths) \subseteq Range(attempted)
          /\ FailedPaths \subseteq Range(attempted)
          /\ (pc = "p_done") => attempted = all_files
          /\ (pc = "p_loop" /\ idx = 1 /\ checkpoint_file.kind = "json") =>
                 checkpoint_file.data = FreshCheckpoint
    /\ (world = "upload" /\ pc # "idle" /\ ~resume) =>
          /\ start_batch = 0
          /\ (pc = "u_attempt" /\ batch_num = 0) =>
                 checkpoint = initialize_upload_checkpoint(Len(articles))
          /\ (pc = "u_done") => calls = [b \in 1..total_batches |-> b - 1]

(* ------------------------ claims on termination ----------------------- *)

\* What a run of upload_in_batches has invoked: each batch it has reached at
\* most max_retries times (invoked counts the current batch), one batch
\* after the other from start_batch, none past the last one; so at most
\* max_retries * (total_batches - start_batch) invocations in all.
BoundedInvocations ==
    (world = "upload" /\ pc # "idle") =>
        /\ invoked <= max_retries
        /\ attempt < max_retries
        /\ start_batch <= total_batches
        /\ calls = [j \in 1..Len(calls) |-> start_batch + j - 1]
        /\ Len(calls) <= total_batches - start_batch
        /\ Len(calls) * max_retries <= max_retries * (total_batches - start_batch)

\* C38, as stated: a run of upload_in_batches whose calls all return
\* invokes the per-batch operation at most
\* max_retries * (total_batches - start_batch) times, whatever the uploader
\* answers, and then returns its statistics.
C38_Terminates ==
    /\ []BoundedInvocations
    /\ (world = "upload" /\ pc # "idle") ~> (pc = "idle" /\ prev_end = "returned")

\* C38's case: a run over three batches is about to return after the
\* uploader failed every attempt of every batch.
C38_Witness ==
    /\ world = "upload"
    /\ pc = "u_done"
    /\ total_batches = 3
    /\ Len(calls) = total_batches
    /\ exhausted = {0, 1, 2}
    /\ invoked = max_retries

(* --------------------- claims on repeated resumes ---------------------- *)

\* Every unit of the run's workload is in the processed set of the
\* checkpoint on disk.
AllOnDisk ==
    /\ checkpoint_file.kind = "json"
    /\ \A j \in 1..Len(all_files) : is_processed(checkpoint_file.data, all_files[j])

\* C39, as stated, its lasting part: once a run has ended with every unit of
\* the workload in the persisted processed set, that stays so under resumed
\* runs: a resumed run that found no remaining unit (it loaded a checkpoint
\* with every unit processed) ends, returning or crashing, with every unit
\* still in the processed set on disk, so the resumed run after it finds no
\* remaining unit either.
C39_CompletionLasts ==
    [][ (/\ world = "parse"
         /\ pc # "idle"
         /\ pc' = "idle"
         /\ resume
         /\ all_files # <<>>
         /\ remaining_files = <<>>) =>
            /\ checkpoint_file'.kind = "json"
            /\ \A j \in 1..Len(all_files) :
                   is_processed(checkpoint_file'.data, all_files[j]) ]_vars

====
